---- MODULE Spec2Model ----
(***************************************************************************)
(* microbase: the Application bootstrap object (src/microbase/app.py) and  *)
(* the check_auth request gate (src/microbase/middleware.py).              *)
(*                                                                         *)
(* Spec      : one Application from construction through registration      *)
(*             calls, run() and the server's shutdown.                     *)
(* SpecAuth  : one wrapped handler serving requests through check_auth.    *)
(*                                                                         *)
(* The HTTP engine (sanic) is an external collaborator: the model records  *)
(* the calls the Application makes on it, in order.                        *)
(***************************************************************************)
EXTENDS Integers, Sequences, FiniteSets, TLC

\* ------------------------------------------------------------------ bounds
\* registration calls issued on one Application
MaxCalls == 3
\* run() calls issued on one Application
MaxRuns == 2

\* ------------------------------------------------------- Python values
\* Every Python object the model passes around is a record carrying its type,
\* so that isinstance() and callable() are decided by the object itself.
PyStr(s) == [type |-> "str", v |-> s]
PyFunc(n) == [type |-> "function", v |-> n]
PyObj(n) == [type |-> "object", v |-> n]
PyEnum(cls, member) == [type |-> cls, v |-> member]
PyDict(d) == [type |-> "dict", v |-> d]
PyNone == [type |-> "NoneType", v |-> "None"]

isinstance(x, cls) == x.type = cls
callable(x) == x.type = "function"

\* dict: a function whose domain is the set of keys present
EmptyDict == [k \in {} |-> TRUE]
DictSet(d, k, val) == [x \in DOMAIN d \cup {k} |-> IF x = k THEN val ELSE d[x]]
DictUpdate(d, other) ==
  [x \in DOMAIN d \cup DOMAIN other |-> IF x \in DOMAIN other THEN other[x] ELSE d[x]]
DictGet(d, k, default) == IF k \in DOMAIN d THEN d[k] ELSE default

Range(s) == {s[i] : i \in DOMAIN s}

\* ------------------------------------------------------------ enumerations
\* middleware.py: class MiddlewareType(enum.Enum)
MiddlewareType == {PyEnum("MiddlewareType", "request"), PyEnum("MiddlewareType", "response")}

\* microbase.hook.HookNames: the lifecycle events of the server engine
HookNames ==
  {PyEnum("HookNames", "before_server_start"), PyEnum("HookNames", "after_server_stop")}

\* microbase.hook.HookHandler(app, handler): the handler bound to the Application
HookHandler(app, handler) == [type |-> "function", v |-> <<"HookHandler", app, handler.v>>]

\* --------------------------------------------------------- configuration
\* sanic Config(load_env=True): every environment variable whose name starts
\* with the engine's prefix sets the key that follows the prefix.  A variable
\* name is the pair <<prefix, rest>>.
SANIC_PREFIX == "SANIC_"

LoadEnvironmentVars(environ) ==
  LET keys == {n[2] : n \in {m \in DOMAIN environ : m[1] = SANIC_PREFIX}}
  IN  [k \in keys |-> environ[<<SANIC_PREFIX, k>>]]

\* attribute names that are upper case (str.isupper)
isupper(name) == name \in {"APP_HOST", "APP_PORT", "DEBUG", "WORKERS",
                           "USER_JWT_SIGNATURE", "SERVICE_JWT_SIGNATURE", "EXTRA"}

\* sanic Config.from_object(obj): every upper-case attribute of obj is stored
from_object(cfg, obj) ==
  LET keys == {a \in DOMAIN obj : isupper(a)}
  IN  DictUpdate(cfg, [k \in keys |-> obj[k]])

\* microbase.config.GeneralConfig: the defaults
GeneralConfig ==
  [APP_HOST |-> "0.0.0.0", APP_PORT |-> "8000", DEBUG |-> "False", WORKERS |-> "1",
   USER_JWT_SIGNATURE |-> "user-default", SERVICE_JWT_SIGNATURE |-> "service-default"]

\* Application._init_config: Config(load_env=True), then from_object(GeneralConfig)
_init_config(environ) == from_object(LoadEnvironmentVars(environ), GeneralConfig)

\* ------------------------------------------------------------ input sets
\* process environments an Application may be constructed in
Environments ==
  { EmptyDict,
    [n \in {<<"SANIC_", "APP_HOST">>, <<"SANIC_", "EXTRA">>, <<"", "USER_JWT_SIGNATURE">>}
       |-> IF n = <<"SANIC_", "APP_HOST">> THEN "env-host"
           ELSE IF n = <<"SANIC_", "EXTRA">> THEN "env-extra" ELSE "unprefixed"] }

\* bp_prefix arguments of the constructor (None: the default of the parameter)
PrefixArgs == {PyNone, PyStr(""), PyStr("/v1")}

\* config objects passed to add_config
ConfigObjects ==
  { [APP_HOST |-> "a-host", USER_JWT_SIGNATURE |-> "a-secret"],
    [APP_HOST |-> "b-host", EXTRA |-> "b-extra", helper |-> "lower-case"] }

\* Route objects passed to add_route / add_routes
Route(handler, uri) == [uri |-> uri, handler |-> handler]
HealthRoute == Route("HealthEndpoint", "/health")
RouteArgs == {Route("widgets", "/widgets"), Route("my_health", "/health")}
RouteListArgs == {<<>>, <<Route("items", "/items"), Route("widgets", "/widgets")>>}

HookNameArgs == HookNames \cup {PyStr("before_server_start")}
HookHandlerArgs == {PyFunc("on_event")}
MiddlewareArgs ==
  {<<t, PyFunc("mw")>> : t \in MiddlewareType \cup {PyStr("request")}}
    \cup {<<PyEnum("MiddlewareType", "request"), PyStr("not callable")>>}
ContextArgs == {<<"auth", PyObj("o1")>>, <<"db", PyObj("o1")>>, <<"db", PyObj("o2")>>}

\* ------------------------------------------------------------------ state
VARIABLES
  bp_arg,        \* the constructor's bp_prefix argument
  bp_prefix,     \* Application.bp_prefix
  environ,       \* the process environment at construction
  config,        \* Application.config
  _routes,       \* Application._routes
  _hooks,        \* Application._hooks
  _middlewares,  \* Application._middlewares
  context,       \* microbase.context._context_mutable (process wide)
  _server,       \* Application._server: the calls made on the latest engine instance
  lifecycle,     \* Configured, Prepared, Running, Stopped
  runs,          \* run() calls so far
  calls,         \* registration calls so far
  last,          \* the last call: its name, arguments and the exception it raised
  added_configs, \* history: the objects passed to add_config, in call order
  added_routes,  \* history: the routes passed to add_route/add_routes, in call order
  context_calls, \* history: name -> object of the latest add_to_context call
  added_hooks,   \* history: the (event, handler) pairs add_server_hook accepted, in call order
  added_middlewares, \* history: the (phase, handler) pairs add_middleware accepted, in call order
  serving        \* calls of the engine's run primitive that have not returned yet

appVars == <<bp_arg, bp_prefix, environ, config, _routes, _hooks, _middlewares, context,
             _server, lifecycle, runs, calls, last, added_configs, added_routes,
             context_calls, added_hooks, added_middlewares, serving>>

NoException == "None"
Call(op, args, exc) == [op |-> op, args |-> args, exc |-> exc]

\* microbase.context: _context_mutable.set(name, obj) stores the reference
ContextSet(ctx, name, obj) == DictSet(ctx, name, obj)

\* Application.__init__
AppInit ==
  /\ bp_arg \in PrefixArgs
  /\ environ \in Environments
  /\ config = _init_config(environ)
  /\ _routes = <<>>
  /\ _hooks = <<>>
  /\ _middlewares = <<>>
  /\ bp_prefix = IF bp_arg # PyNone THEN bp_arg.v ELSE ""
  /\ context = EmptyDict
  /\ _server = <<>>
  /\ lifecycle = "Configured"
  /\ runs = 0
  /\ calls = 0
  /\ last = Call("__init__", <<>>, NoException)
  /\ added_configs = <<>>
  /\ added_routes = <<>>
  /\ context_calls = EmptyDict
  /\ added_hooks = <<>>
  /\ added_middlewares = <<>>
  /\ serving = 0

\* a registration call may be issued whenever the caller's thread is not
\* inside _prepare_server
CanCall == calls < MaxCalls /\ lifecycle # "Prepared"

\* Application.add_config
\* (fault variant: keys already in the store are kept)
AddConfigKeepsExisting(obj) ==
  /\ CanCall
  /\ config' = DictUpdate(from_object(EmptyDict, obj), config)
  /\ added_configs' = Append(added_configs, obj)
  /\ calls' = calls + 1
  /\ last' = Call("add_config", <<obj>>, NoException)
  /\ UNCHANGED <<added_hooks, added_middlewares,
                 serving, bp_arg, bp_prefix, environ, _routes, _hooks, _middlewares, context,
                 _server, lifecycle, runs, added_routes, context_calls>>

add_config(obj) ==
  /\ CanCall
  /\ config' = from_object(config, obj)
  /\ added_configs' = Append(added_configs, obj)
  /\ calls' = calls + 1
  /\ last' = Call("add_config", <<obj>>, NoException)
  /\ UNCHANGED <<added_hooks, added_middlewares,
                 serving, bp_arg, bp_prefix, environ, _routes, _hooks, _middlewares, context,
                 _server, lifecycle, runs, added_routes, context_calls>>

\* Application.add_route
\* (fault variant: a route added while the engine serves is registered on it)
AddRouteLive(route) ==
  /\ CanCall
  /\ _routes' = Append(_routes, route)
  /\ _server' = IF lifecycle = "Running"
                  THEN Append(_server, [kind |-> "route", a |-> route.uri, b |-> route.handler])
                  ELSE _server
  /\ added_routes' = Append(added_routes, route)
  /\ calls' = calls + 1
  /\ last' = Call("add_route", <<route>>, NoException)
  /\ UNCHANGED <<added_hooks, added_middlewares,
                 serving, bp_arg, bp_prefix, environ, config, _hooks, _middlewares, context,
                 lifecycle, runs, added_configs, context_calls>>

add_route(route) ==
  /\ CanCall
  /\ _routes' = Append(_routes, route)
  /\ added_routes' = Append(added_routes, route)
  /\ calls' = calls + 1
  /\ last' = Call("add_route", <<route>>, NoException)
  /\ UNCHANGED <<added_hooks, added_middlewares,
                 serving, bp_arg, bp_prefix, environ, config, _hooks, _middlewares, context,
                 _server, lifecycle, runs, added_configs, context_calls>>

\* Application.add_routes
add_routes(routes) ==
  /\ CanCall
  /\ _routes' = _routes \o routes
  /\ added_routes' = added_routes \o routes
  /\ calls' = calls + 1
  /\ last' = Call("add_routes", <<routes>>, NoException)
  /\ UNCHANGED <<added_hooks, added_middlewares,
                 serving, bp_arg, bp_prefix, environ, config, _hooks, _middlewares, context,
                 _server, lifecycle, runs, added_configs, context_calls>>

\* Application.add_server_hook
\* (fault variant: the HookNames check is missing)
AddServerHookUnchecked(hook_name, handler) ==
  /\ CanCall
  /\ _hooks' = Append(_hooks, <<hook_name, HookHandler("self", handler)>>)
  /\ added_hooks' = Append(added_hooks, <<hook_name, handler>>)
  /\ calls' = calls + 1
  /\ last' = Call("add_server_hook", <<hook_name, handler>>, NoException)
  /\ UNCHANGED <<added_middlewares,
                 serving, bp_arg, bp_prefix, environ, config, _routes, _middlewares, context,
                 _server, lifecycle, runs, added_configs, added_routes, context_calls>>

add_server_hook(hook_name, handler) ==
  /\ CanCall
  /\ calls' = calls + 1
  /\ IF ~isinstance(hook_name, "HookNames")
       THEN /\ last' = Call("add_server_hook", <<hook_name, handler>>, "ApplicationError")
            /\ UNCHANGED <<_hooks, added_hooks>>
       ELSE /\ _hooks' = Append(_hooks, <<hook_name, HookHandler("self", handler)>>)
            /\ added_hooks' = Append(added_hooks, <<hook_name, handler>>)
            /\ last' = Call("add_server_hook", <<hook_name, handler>>, NoException)
  /\ UNCHANGED <<added_middlewares,
                 serving, bp_arg, bp_prefix, environ, config, _routes, _middlewares, context,
                 _server, lifecycle, runs, added_configs, added_routes, context_calls>>

\* Application.add_to_context
\* (fault variant: the write is put off)
AddToContextDeferred(name, obj) ==
  /\ CanCall
  /\ context_calls' = DictSet(context_calls, name, obj)
  /\ calls' = calls + 1
  /\ last' = Call("add_to_context", <<name, obj>>, NoException)
  /\ UNCHANGED <<added_hooks, added_middlewares,
                 serving, bp_arg, bp_prefix, environ, config, _routes, _hooks, _middlewares,
                 context, _server, lifecycle, runs, added_configs, added_routes>>

add_to_context(name, obj) ==
  /\ CanCall
  /\ context' = ContextSet(context, name, obj)
  /\ context_calls' = DictSet(context_calls, name, obj)
  /\ calls' = calls + 1
  /\ last' = Call("add_to_context", <<name, obj>>, NoException)
  /\ UNCHANGED <<added_hooks, added_middlewares,
                 serving, bp_arg, bp_prefix, environ, config, _routes, _hooks, _middlewares,
                 _server, lifecycle, runs, added_configs, added_routes>>

\* Application.add_middleware
\* (fault variant: the callable check is missing)
AddMiddlewareTypeOnly(middleware_type, middleware) ==
  /\ CanCall
  /\ calls' = calls + 1
  /\ IF ~isinstance(middleware_type, "MiddlewareType")
       THEN /\ last' = Call("add_middleware", <<middleware_type, middleware>>,
                            "ApplicationError")
            /\ UNCHANGED <<_middlewares, added_middlewares>>
       ELSE /\ _middlewares' = Append(_middlewares, <<middleware_type, middleware>>)
            /\ added_middlewares' =
                 Append(added_middlewares, <<middleware_type, middleware>>)
            /\ last' = Call("add_middleware", <<middleware_type, middleware>>, NoException)
  /\ UNCHANGED <<added_hooks,
                 serving, bp_arg, bp_prefix, environ, config, _routes, _hooks, context,
                 _server, lifecycle, runs, added_configs, added_routes, context_calls>>

add_middleware(middleware_type, middleware) ==
  /\ CanCall
  /\ calls' = calls + 1
  /\ IF ~isinstance(middleware_type, "MiddlewareType") \/ ~callable(middleware)
       THEN /\ last' = Call("add_middleware", <<middleware_type, middleware>>,
                            "ApplicationError")
            /\ UNCHANGED <<_middlewares, added_middlewares>>
       ELSE /\ _middlewares' = Append(_middlewares, <<middleware_type, middleware>>)
            /\ added_middlewares' =
                 Append(added_middlewares, <<middleware_type, middleware>>)
            /\ last' = Call("add_middleware", <<middleware_type, middleware>>, NoException)
  /\ UNCHANGED <<added_hooks,
                 serving, bp_arg, bp_prefix, environ, config, _routes, _hooks, context,
                 _server, lifecycle, runs, added_configs, added_routes, context_calls>>

\* ------------------------------------------------------------------ run()
\* one call made on the engine instance (or a step of run() worth ordering)
Ev(kind, a, b) == [kind |-> kind, a |-> a, b |-> b]

\* Application._apply_routes: the health route is appended to the registry, then
\* every route of the registry is handed to the engine, in order.  With a prefix
\* they go through a Blueprint, which registers each at url_prefix + uri.
\* Result: the registry, and the calls made on the engine.
\* (fault variant: the health route is not appended)
ApplyRoutesNoHealth(routes, prefix) ==
  [registry |-> routes,
   engine |->
     IF Len(prefix) = 0
       THEN [i \in DOMAIN routes |-> Ev("route", routes[i].uri, routes[i].handler)]
       ELSE <<Ev("register_blueprint", prefix, prefix)>> \o
            [i \in DOMAIN routes |->
               Ev("route", prefix \o routes[i].uri, routes[i].handler)]]

\* (fault variant: the health route bypasses the Blueprint)
ApplyRoutesHealthOnServer(routes, prefix) ==
  LET rs == Append(routes, HealthRoute)
  IN  [registry |-> rs,
       engine |->
         IF Len(prefix) = 0
           THEN [i \in DOMAIN rs |-> Ev("route", rs[i].uri, rs[i].handler)]
           ELSE <<Ev("register_blueprint", prefix, prefix)>> \o
                [i \in DOMAIN routes |->
                   Ev("route", prefix \o routes[i].uri, routes[i].handler)] \o
                <<Ev("route", HealthRoute.uri, HealthRoute.handler)>>]

\* (fault variant: the health route is put in front of the registry)
ApplyRoutesHealthFirst(routes, prefix) ==
  LET rs == <<HealthRoute>> \o routes
  IN  [registry |-> rs,
       engine |->
         IF Len(prefix) = 0
           THEN [i \in DOMAIN rs |-> Ev("route", rs[i].uri, rs[i].handler)]
           ELSE <<Ev("register_blueprint", prefix, prefix)>> \o
                [i \in DOMAIN rs |-> Ev("route", prefix \o rs[i].uri, rs[i].handler)]]

\* (fault variant: the health route is appended only when the registry lacks it)
ApplyRoutesHealthOnce(routes, prefix) ==
  LET rs == IF HealthRoute \in Range(routes) THEN routes ELSE Append(routes, HealthRoute)
  IN  [registry |-> rs,
       engine |->
         IF Len(prefix) = 0
           THEN [i \in DOMAIN rs |-> Ev("route", rs[i].uri, rs[i].handler)]
           ELSE <<Ev("register_blueprint", prefix, prefix)>> \o
                [i \in DOMAIN rs |-> Ev("route", prefix \o rs[i].uri, rs[i].handler)]]

_apply_routes(routes, prefix) ==
  LET rs == Append(routes, HealthRoute)
  IN  [registry |-> rs,
       engine |->
         IF Len(prefix) = 0
           THEN [i \in DOMAIN rs |-> Ev("route", rs[i].uri, rs[i].handler)]
           ELSE <<Ev("register_blueprint", prefix, prefix)>> \o
                [i \in DOMAIN rs |-> Ev("route", prefix \o rs[i].uri, rs[i].handler)]]

\* Application._apply_hooks
\* (fault variant: the registry is walked from its end)
ApplyHooksReversed(hooks) ==
  [i \in DOMAIN hooks |->
     Ev("listener", hooks[Len(hooks) + 1 - i][1].v, hooks[Len(hooks) + 1 - i][2])]

_apply_hooks(hooks) ==
  [i \in DOMAIN hooks |-> Ev("listener", hooks[i][1].v, hooks[i][2])]

\* Application._apply_middlewares
_apply_middlewares(middlewares) ==
  [i \in DOMAIN middlewares |-> Ev("middleware", middlewares[i][1].v, middlewares[i][2])]

\* microbase_auth.AuthManager after the two set_signature calls of _prepare_server
\* (fault variant: the secrets are the defaults, not the store's)
AuthManagerDefaultSecrets(id, cfg) ==
  [type |-> "AuthManager",
   v |-> [id |-> id, User |-> GeneralConfig["USER_JWT_SIGNATURE"],
          Service |-> GeneralConfig["SERVICE_JWT_SIGNATURE"]]]

AuthManager(id, cfg) ==
  [type |-> "AuthManager",
   v |-> [id |-> id, User |-> cfg["USER_JWT_SIGNATURE"],
          Service |-> cfg["SERVICE_JWT_SIGNATURE"]]]

\* Application.run up to the engine's run primitive: _apply_logging and
\* _prepare_server.  run() checks nothing: it may be called again after the
\* engine returned, and by a hook or handler while an engine serves.
run_prepare_server ==
  /\ lifecycle # "Prepared"
  /\ runs < MaxRuns
  /\ runs' = runs + 1
  /\ _routes' = _apply_routes(_routes, bp_prefix).registry
  /\ _server' = <<Ev("Sanic", "config", "self.config")>>
                   \o _apply_routes(_routes, bp_prefix).engine
                   \o _apply_hooks(_hooks) \o _apply_middlewares(_middlewares)
  /\ context' = ContextSet(context, "auth", AuthManager(runs', config))
  /\ context_calls' = DictSet(context_calls, "auth", AuthManager(runs', config))
  /\ lifecycle' = "Prepared"
  /\ last' = Call("run", <<>>, NoException)
  /\ UNCHANGED <<added_hooks, added_middlewares,
                 serving, bp_arg, bp_prefix, environ, config, _hooks, _middlewares, calls,
                 added_configs, added_routes>>

\* Application.run: self._server.run(host, port, debug, workers), which blocks
run_serve ==
  /\ lifecycle = "Prepared"
  /\ _server' = Append(_server,
                       Ev("run", <<config["APP_HOST"], config["APP_PORT"]>>,
                          <<config["DEBUG"], config["WORKERS"]>>))
  /\ lifecycle' = "Running"
  /\ serving' = serving + 1
  /\ UNCHANGED <<added_hooks, added_middlewares,
                 bp_arg, bp_prefix, environ, config, _routes, _hooks, _middlewares,
                 context, runs, calls, last, added_configs, added_routes, context_calls>>

\* the engine that was started last shuts down and its run primitive returns to
\* run()'s caller: the main thread, or a hook or handler of an engine that
\* still serves
server_stopped ==
  /\ lifecycle = "Running"
  /\ serving' = serving - 1
  /\ lifecycle' = IF serving' > 0 THEN "Running" ELSE "Stopped"
  /\ UNCHANGED <<added_hooks, added_middlewares,
                 bp_arg, bp_prefix, environ, config, _routes, _hooks, _middlewares,
                 context, _server, runs, calls, last, added_configs, added_routes,
                 context_calls>>

\* _prepare_server, self._server.config = self.config: the engine holds the
\* store itself, not a copy, so it reads whatever the store holds now
_server_config == IF _server # <<>> THEN PyDict(config) ELSE PyNone

\* the engine's route table: the routes registered on it, in order
RouteTable == SelectSeq(_server, LAMBDA e : e.kind = "route")
RouteTableURIs == {e.a : e \in Range(RouteTable)}

AppNext ==
  \/ \E obj \in ConfigObjects : add_config(obj)
  \/ \E route \in RouteArgs : add_route(route)
  \/ \E routes \in RouteListArgs : add_routes(routes)
  \/ \E hook_name \in HookNameArgs, handler \in HookHandlerArgs :
        add_server_hook(hook_name, handler)
  \/ \E m \in MiddlewareArgs : add_middleware(m[1], m[2])
  \/ \E c \in ContextArgs : add_to_context(c[1], c[2])
  \/ run_prepare_server
  \/ run_serve
  \/ server_stopped

\* ============================================================ check_auth
\* microbase.helpers.jwt_payload(token): the claims of a verified token, or the
\* exception the codec raises
Payload(p) == [exc |-> NoException, payload |-> p]
Raises(e) == [exc |-> e, payload |-> EmptyDict]

jwt_payload(token) ==
  CASE token = PyStr("tok-u1") -> Payload([uid |-> "u1", exp |-> 1999999999])
    [] token = PyStr("tok-u2") -> Payload([uid |-> "u2", exp |-> 1888888888])
    [] token = PyStr("tok-expired") -> Raises("ExpiredSignatureError")
    [] token = PyStr("tok-no-uid") -> Payload([exp |-> 1999999999])
    [] token = PyStr("tok-no-exp") -> Payload([uid |-> "u1"])
    [] OTHER -> Raises("DecodeError")

\* http.HTTPStatus(code).phrase
HTTPStatusPhrase(code) ==
  CASE code = 200 -> "OK"
    [] code = 401 -> "Unauthorized"
    [] code = 500 -> "Internal Server Error"

\* sanic.response.json(body, status=200)
json(body, status) == [status |-> status, body |-> body]

\* middleware._make_response_json
\* (fault variant: the status argument of json() is left out)
MakeResponseJsonDefaultStatus(code, message, data) ==
  IF data # PyNone THEN json(data.v, 200)
  ELSE json([code |-> code,
             message |-> IF message = PyNone THEN HTTPStatusPhrase(code) ELSE message.v],
            200)

_make_response_json(code, message, data) ==
  IF data # PyNone THEN json(data.v, 200)
  ELSE json([code |-> code,
             message |-> IF message = PyNone THEN HTTPStatusPhrase(code) ELSE message.v],
            code)

\* ------------------------------------------------------------ input sets
Tokens == {PyStr("tok-u1"), PyStr("tok-u2"), PyStr("tok-expired"), PyStr("tok-no-uid"),
           PyStr("tok-no-exp"), PyStr("garbage")}
HeaderArgs == {EmptyDict} \cup {[h \in {"authorization"} |-> t] : t \in Tokens}
MethodArgs == {"GET", "POST", "DELETE"}
MatchInfoArgs == {PyNone, PyDict(EmptyDict), PyDict([id |-> PyStr("7")]),
                  PyDict([auth |-> PyStr("forged"), id |-> PyStr("7")])}
JsonArgs == {PyNone, PyDict(EmptyDict), PyDict([name |-> PyStr("x")]),
             PyDict([auth |-> PyStr("forged"), name |-> PyStr("x")])}
Requests ==
  [headers : HeaderArgs, method : MethodArgs, match_info : MatchInfoArgs, json : JsonArgs]

\* what the wrapped handler does when awaited: a response, or an exception
FuncResponses ==
  {json([ok |-> TRUE], 200), json([error |-> "teapot"], 418), json([error |-> "boom"], 500)}
FuncOutcomes ==
  {[exc |-> NoException, response |-> r] : r \in FuncResponses}
    \cup {[exc |-> e, response |-> PyNone] : e \in {"ExpiredSignatureError", "ValueError"}}

\* ------------------------------------------------------------------ state
VARIABLES
  request,    \* the request object, as the gate has left it
  received,   \* history: the request as it arrived
  pc,         \* arrived, in_func (awaiting the wrapped handler), done
  response,   \* the response the gate returned, or None
  raised,     \* the exception that left the gate, or None
  func_calls, \* invocations of the wrapped handler
  func_saw,   \* the request as the wrapped handler was given it, or None
  func_result \* history: how the awaited wrapped handler ended, or None

authVars == <<request, received, pc, response, raised, func_calls, func_saw, func_result>>

AuthInit ==
  /\ request \in Requests
  /\ received = request
  /\ pc = "arrived"
  /\ response = PyNone
  /\ raised = NoException
  /\ func_calls = 0
  /\ func_saw = PyNone
  /\ func_result = PyNone

\* handler, lines 37-43: the bundle built from the token and its claims
AuthParams(jwt_token, payload) ==
  [auth |-> [access_token |-> jwt_token.v, user_id |-> payload["uid"], exp |-> payload["exp"]]]

\* handler, lines 45-54: the bundle merged into the map the method selects
\* (fault variant: the method is not looked at)
InjectAlwaysMatchInfo(req, params) ==
  [req EXCEPT !.match_info =
     PyDict(DictUpdate(IF req.match_info = PyNone THEN EmptyDict ELSE req.match_info.v,
                       params))]

\* (fault variant: keys the map already holds are kept)
InjectKeepsExisting(req, params) ==
  IF req.method = "GET"
    THEN [req EXCEPT !.match_info =
            PyDict(DictUpdate(params, IF req.match_info = PyNone THEN EmptyDict
                                      ELSE req.match_info.v))]
    ELSE [req EXCEPT !.json =
            PyDict(DictUpdate(params, IF req.json = PyNone THEN EmptyDict ELSE req.json.v))]

Inject(req, params) ==
  IF req.method = "GET"
    THEN [req EXCEPT !.match_info =
            PyDict(DictUpdate(IF req.match_info = PyNone THEN EmptyDict
                              ELSE req.match_info.v, params))]
    ELSE [req EXCEPT !.json =
            PyDict(DictUpdate(IF req.json = PyNone THEN EmptyDict ELSE req.json.v, params))]

\* handler, lines 57-60: the except clauses, tried in order; the response of the
\* first that matches, or None when the exception propagates
\* (fault variant: only the second clause is present)
ExceptSecondClause(exc) ==
  IF exc = "ExpiredSignatureError" THEN _make_response_json(500, PyNone, PyNone)
  ELSE PyNone

\* (fault variant: the second clause catches every other exception)
ExceptCatchAll(exc) ==
  IF exc = "ExpiredSignatureError" THEN _make_response_json(401, PyNone, PyNone)
  ELSE _make_response_json(500, PyNone, PyNone)

Except(exc) ==
  IF exc = "ExpiredSignatureError" THEN _make_response_json(401, PyNone, PyNone)
  ELSE IF exc = "ExpiredSignatureError" THEN _make_response_json(500, PyNone, PyNone)
  ELSE PyNone

\* an exception raised inside the try block
Thrown(exc) ==
  /\ pc' = "done"
  /\ response' = Except(exc)
  /\ raised' = IF Except(exc) = PyNone THEN exc ELSE NoException

\* handler, lines 27-56: from the call up to the await of the wrapped handler
\* (fault variant: a missing header is decoded like a token)
HandlerBeginNoHeaderCheck ==
  /\ pc = "arrived"
  /\ LET jwt_token == DictGet(request.headers, "authorization", PyStr("garbage"))
         decoded == jwt_payload(jwt_token)
     IN  IF decoded.exc # NoException
           THEN Thrown(decoded.exc) /\ UNCHANGED <<request, func_calls, func_saw>>
         ELSE IF ~({"uid", "exp"} \subseteq DOMAIN decoded.payload)
           THEN Thrown("KeyError") /\ UNCHANGED <<request, func_calls, func_saw>>
         ELSE /\ request' = Inject(request, AuthParams(jwt_token, decoded.payload))
              /\ func_calls' = func_calls + 1
              /\ func_saw' = [type |-> "Request", v |-> request']
              /\ pc' = "in_func"
              /\ UNCHANGED <<response, raised>>
  /\ UNCHANGED <<received, func_result>>

handler_begin ==
  /\ pc = "arrived"
  /\ LET jwt_token == DictGet(request.headers, "authorization", PyNone)
         decoded == jwt_payload(jwt_token)
     IN  IF jwt_token = PyNone
           THEN /\ response' = _make_response_json(401, PyNone, PyNone)
                /\ pc' = "done"
                /\ UNCHANGED <<request, raised, func_calls, func_saw>>
         ELSE IF decoded.exc # NoException
           THEN Thrown(decoded.exc) /\ UNCHANGED <<request, func_calls, func_saw>>
         ELSE IF ~({"uid", "exp"} \subseteq DOMAIN decoded.payload)
           THEN Thrown("KeyError") /\ UNCHANGED <<request, func_calls, func_saw>>
         ELSE /\ request' = Inject(request, AuthParams(jwt_token, decoded.payload))
              /\ func_calls' = func_calls + 1
              /\ func_saw' = [type |-> "Request", v |-> request']
              /\ pc' = "in_func"
              /\ UNCHANGED <<response, raised>>
  /\ UNCHANGED <<received, func_result>>

\* handler, lines 56-60: the awaited wrapped handler returns or raises
\* (fault variant: the handler's body is wrapped again as a data payload)
HandlerResumeRewraps(outcome) ==
  /\ pc = "in_func"
  /\ IF outcome.exc = NoException
       THEN /\ response' = _make_response_json(200, PyNone, PyDict(outcome.response.body))
            /\ pc' = "done"
            /\ UNCHANGED raised
       ELSE Thrown(outcome.exc)
  /\ func_result' = outcome
  /\ UNCHANGED <<request, received, func_calls, func_saw>>

\* (fault variant: the wrapped handler is awaited after the try block)
HandlerResumeOutsideTry(outcome) ==
  /\ pc = "in_func"
  /\ pc' = "done"
  /\ response' = outcome.response
  /\ raised' = outcome.exc
  /\ func_result' = outcome
  /\ UNCHANGED <<request, received, func_calls, func_saw>>

handler_resume(outcome) ==
  /\ pc = "in_func"
  /\ IF outcome.exc = NoException
       THEN /\ response' = outcome.response
            /\ pc' = "done"
            /\ UNCHANGED raised
       ELSE Thrown(outcome.exc)
  /\ func_result' = outcome
  /\ UNCHANGED <<request, received, func_calls, func_saw>>

AuthNext ==
  \/ handler_begin
  \/ \E outcome \in FuncOutcomes : handler_resume(outcome)

\* ------------------------------------------------------- specifications
vars == <<appVars, authVars>>

\* no request is in flight while the Application is being assembled
AuthIdle ==
  /\ request = [headers |-> EmptyDict, method |-> "GET", match_info |-> PyNone,
                json |-> PyNone]
  /\ received = request
  /\ pc = "done"
  /\ response = PyNone
  /\ raised = NoException
  /\ func_calls = 0
  /\ func_saw = PyNone
  /\ func_result = PyNone

Init == AppInit /\ AuthIdle
Next == AppNext /\ UNCHANGED authVars
Spec == Init /\ [][Next]_vars

\* the gate is a decorator of its own: the Application stays as constructed
AppConstructed ==
  /\ bp_arg = PyNone
  /\ environ = EmptyDict
  /\ config = _init_config(environ)
  /\ _routes = <<>>
  /\ _hooks = <<>>
  /\ _middlewares = <<>>
  /\ bp_prefix = ""
  /\ context = EmptyDict
  /\ _server = <<>>
  /\ lifecycle = "Configured"
  /\ runs = 0
  /\ calls = 0
  /\ last = Call("__init__", <<>>, NoException)
  /\ added_configs = <<>>
  /\ added_routes = <<>>
  /\ context_calls = EmptyDict
  /\ added_hooks = <<>>
  /\ added_middlewares = <<>>
  /\ serving = 0

InitAuth == AppConstructed /\ AuthInit
NextAuth == AuthNext /\ UNCHANGED appVars
SpecAuth == InitAuth /\ [][NextAuth]_vars

\* ================================================================= claims
registries == <<_routes, _hooks, _middlewares>>

\* C1: an add_server_hook call whose event is not a member of HookNames raises
\* ApplicationError and leaves the hook registry, the other registries, the
\* configuration and the context as they were.
C1_InvalidHookRejected ==
  [][(/\ calls' = calls + 1
      /\ last'.op = "add_server_hook"
      /\ last'.args[1] \notin HookNames)
     => (/\ last'.exc = "ApplicationError"
         /\ UNCHANGED <<registries, config, context>>)]_vars

\* an invalid add_server_hook call was made on an Application that already holds
\* a hook and a route
C1_Witness ==
  /\ last.op = "add_server_hook"
  /\ last.args[1] \notin HookNames
  /\ last.exc = "ApplicationError"
  /\ _hooks # <<>>
  /\ _routes # <<>>

\* C2: an add_middleware call whose phase is not a member of MiddlewareType, or
\* whose handler is not callable, raises ApplicationError and leaves the
\* middleware registry as it was.
C2_InvalidMiddlewareRejected ==
  [][(/\ calls' = calls + 1
      /\ last'.op = "add_middleware"
      /\ (last'.args[1] \notin MiddlewareType \/ ~callable(last'.args[2])))
     => (/\ last'.exc = "ApplicationError"
         /\ UNCHANGED _middlewares)]_vars

\* a middleware with a valid phase and a handler that is not callable was
\* rejected by an Application that already holds a middleware
C2_Witness ==
  /\ last.op = "add_middleware"
  /\ last.args[1] \in MiddlewareType
  /\ ~callable(last.args[2])
  /\ last.exc = "ApplicationError"
  /\ _middlewares # <<>>

\* where the health route is served for a given prefix
HealthURI == IF Len(bp_prefix) > 0 THEN bp_prefix \o "/health" ELSE "/health"

\* C3: once run() has prepared the server, the route table holds the health
\* endpoint at bp_prefix + "/health" (at "/health" without a prefix), whatever
\* the prefix argument and the routes registered.
C3_HealthRoutePresent ==
  lifecycle # "Configured" =>
    Ev("route", HealthURI, HealthRoute.handler) \in Range(RouteTable)

\* a prefixed Application with caller routes has been prepared
C3_Witness ==
  /\ lifecycle = "Prepared"
  /\ bp_arg = PyStr("/v1")
  /\ added_routes # <<>>
  /\ "/v1/health" \in RouteTableURIs

\* C4: with a non-empty prefix P, the URIs of the route table that run() has
\* just built are exactly P + "/health" and P + u for every registered URI u.
C4_PrefixedRouteTable ==
  (lifecycle = "Prepared" /\ Len(bp_prefix) > 0) =>
    RouteTableURIs =
      {bp_prefix \o "/health"} \cup {bp_prefix \o r.uri : r \in Range(added_routes)}

\* bp_prefix = "/v1" and one route "/widgets": the table is /v1/health, /v1/widgets
C4_Witness ==
  /\ lifecycle = "Prepared"
  /\ runs = 1
  /\ bp_prefix = "/v1"
  /\ added_routes = <<Route("widgets", "/widgets")>>
  /\ RouteTableURIs = {"/v1/health", "/v1/widgets"}

\* the keys the environment sets, and the last add_config call that sets a key
EnvConfig == LoadEnvironmentVars(environ)
Setters(k) == {i \in DOMAIN added_configs : k \in DOMAIN added_configs[i] /\ isupper(k)}
LastSetter(k) == CHOOSE i \in Setters(k) : \A j \in Setters(k) : j <= i
ConfigKeys ==
  DOMAIN config \cup DOMAIN GeneralConfig
    \cup UNION {{a \in DOMAIN o : isupper(a)} : o \in ConfigObjects}

\* C5: when run() reads the configuration, a key set by an environment variable
\* and also by the defaults or by an add_config object holds the environment's
\* value.
C5_EnvironmentWins ==
  lifecycle = "Prepared" =>
    \A k \in DOMAIN EnvConfig :
      (k \in DOMAIN GeneralConfig \/ Setters(k) # {}) => config[k] = EnvConfig[k]

\* C6: after any sequence of add_config calls, each key holds the value of the
\* last object in call order that set it, or the default if none did.
C6_LaterConfigWins ==
  \A k \in ConfigKeys :
    IF Setters(k) # {}
      THEN DictGet(config, k, PyNone) = added_configs[LastSetter(k)][k]
      ELSE k \in DOMAIN GeneralConfig => DictGet(config, k, PyNone) = GeneralConfig[k]

\* two add_config calls set APP_HOST to different values, no environment
\* variable does, and the store holds the later one
C6_Witness ==
  /\ Len(added_configs) = 2
  /\ added_configs[1]["APP_HOST"] # added_configs[2]["APP_HOST"]
  /\ "APP_HOST" \notin DOMAIN EnvConfig
  /\ config["APP_HOST"] = added_configs[2]["APP_HOST"]

\* microbase.context: the lookup of a name
ContextGet(ctx, name) == DictGet(ctx, name, PyNone)

\* C7: in every lifecycle state, each name passed to add_to_context maps in the
\* Context to the very object of the latest call for that name.
C7_ContextRoundTrip ==
  \A name \in DOMAIN context_calls : ContextGet(context, name) = context_calls[name]

\* after run() published the AuthManager as "auth", a caller's add_to_context
\* replaced it at once
C7_Witness ==
  /\ last.op = "add_to_context"
  /\ last.args[1] = "auth"
  /\ runs > 0
  /\ ContextGet(context, "auth") = last.args[2]

\* ------------------------------------------------------ check_auth claims
HasToken == "authorization" \in DOMAIN received.headers
Token == received.headers["authorization"]
Decoded == jwt_payload(Token)
DecodesToClaims ==
  /\ HasToken
  /\ Decoded.exc = NoException
  /\ {"uid", "exp"} \subseteq DOMAIN Decoded.payload

\* C8: a request without an authorization header is answered 401 with the body
\* {code: 401, message: "Unauthorized"}, whatever its method, and the wrapped
\* handler is not invoked.
C8_MissingHeader401 ==
  (pc = "done" /\ ~HasToken) =>
    /\ response = [status |-> 401, body |-> [code |-> 401, message |-> "Unauthorized"]]
    /\ raised = NoException
    /\ func_calls = 0

\* a POST without the header has been answered
C8_Witness ==
  /\ pc = "done"
  /\ ~HasToken
  /\ received.method = "POST"
  /\ response # PyNone

\* C9: a request whose token the codec rejects as expired is answered 401 and
\* the wrapped handler is not invoked.
C9_ExpiredToken401 ==
  (pc = "done" /\ HasToken /\ Decoded.exc = "ExpiredSignatureError") =>
    /\ response # PyNone
    /\ response.status = 401
    /\ raised = NoException
    /\ func_calls = 0

\* a request carrying the expired token has been answered
C9_Witness ==
  /\ pc = "done"
  /\ HasToken
  /\ Token = PyStr("tok-expired")
  /\ response # PyNone

\* the bundle built from the header token and its verified claims
Bundle ==
  [access_token |-> Token.v, user_id |-> Decoded.payload["uid"],
   exp |-> Decoded.payload["exp"]]

HoldsBundle(map) ==
  /\ map.type = "dict"
  /\ "auth" \in DOMAIN map.v
  /\ map.v["auth"] = Bundle

\* C10: for a token that decodes to uid and exp, the wrapped handler is given a
\* request whose path-parameter map (GET) or body map (any other method) holds
\* auth = {access_token: the header token, user_id, exp}; the other map is as
\* it arrived.
C10_BundlePlacedByMethod ==
  (pc # "arrived" /\ DecodesToClaims) =>
    /\ func_saw # PyNone
    /\ IF received.method = "GET"
         THEN /\ HoldsBundle(func_saw.v.match_info)
              /\ func_saw.v.json = received.json
         ELSE /\ HoldsBundle(func_saw.v.json)
              /\ func_saw.v.match_info = received.match_info

\* a POST without a body: the body map was created and holds the bundle only
C10_Witness ==
  /\ pc = "in_func"
  /\ received.method = "POST"
  /\ received.json = PyNone
  /\ func_saw.v.json = PyDict([auth |-> Bundle])

\* the gate's own answer to a failed authentication
Unauthorized == [status |-> 401, body |-> [code |-> 401, message |-> "Unauthorized"]]

\* the map the method selects, in a request
TargetMap(req) == IF req.method = "GET" THEN req.match_info ELSE req.json

\* C11: for a token that decodes to uid and exp, the wrapped handler is invoked
\* exactly once, with a request that already carries the bundle, and when it
\* returns a response the gate returns that very response.
C11_HandlerOnceResponseUnchanged ==
  (pc # "arrived" /\ DecodesToClaims) =>
    /\ func_calls = 1
    /\ func_saw # PyNone
    /\ HoldsBundle(TargetMap(func_saw.v))
    /\ (pc = "done" /\ func_result.exc = NoException) =>
         (response = func_result.response /\ raised = NoException)

\* the wrapped handler answered 418 and the gate passed it on
C11_Witness ==
  /\ pc = "done"
  /\ DecodesToClaims
  /\ func_calls = 1
  /\ func_result # PyNone
  /\ func_result.exc = NoException
  /\ func_result.response.status = 418
  /\ response = func_result.response

\* C12: whatever the way the token fails (missing, expired, malformed, wrongly
\* signed, lacking a claim), the gate returns a response and lets no exception
\* reach its caller.
C12_AuthFailureAnswered ==
  (pc = "done" /\ ~DecodesToClaims) => (response # PyNone /\ raised = NoException)

\* ---------------------------------------------------- run(): order and frame
Listeners == SelectSeq(_server, LAMBDA e : e.kind = "listener")
Middlewares == SelectSeq(_server, LAMBDA e : e.kind = "middleware")

\* C13: the engine that run() has just prepared holds one listener per accepted
\* add_server_hook call and one middleware per accepted add_middleware call,
\* each sequence in call order, and every listener was bound before any
\* middleware.
C13_BoundInRegistrationOrder ==
  lifecycle = "Prepared" =>
    /\ Len(Listeners) = Len(added_hooks)
    /\ \A i \in DOMAIN added_hooks :
         Listeners[i] = Ev("listener", added_hooks[i][1].v,
                           HookHandler("self", added_hooks[i][2]))
    /\ Len(Middlewares) = Len(added_middlewares)
    /\ \A i \in DOMAIN added_middlewares :
         Middlewares[i] = Ev("middleware", added_middlewares[i][1].v,
                             added_middlewares[i][2])
    /\ \A i, j \in DOMAIN _server :
         (_server[i].kind = "listener" /\ _server[j].kind = "middleware") => i < j

\* two different hooks and a middleware were registered, then run() prepared
C13_Witness ==
  /\ lifecycle = "Prepared"
  /\ Len(added_hooks) = 2
  /\ added_hooks[1] # added_hooks[2]
  /\ Len(added_middlewares) = 1
  /\ Len(Listeners) = 2

HealthEntry == Ev("route", HealthURI, HealthRoute.handler)
RouteEntry(r) ==
  Ev("route", IF Len(bp_prefix) > 0 THEN bp_prefix \o r.uri ELSE r.uri, r.handler)

\* C14 as stated: the health route is the first route run() registers on the
\* engine, before every caller-registered route.
C14_HealthRouteFirst ==
  lifecycle = "Prepared" => RouteTable[1] = HealthEntry

\* C14 amended: the health route is appended to the registry as the first step
\* of _apply_routes and is therefore the last route registered on the engine,
\* after every caller-registered route, which keep their registration order.
C14_HealthRouteLast ==
  lifecycle = "Prepared" =>
    /\ RouteTable # <<>>
    /\ RouteTable[Len(RouteTable)] = HealthEntry
    /\ runs = 1 =>
         /\ Len(RouteTable) = Len(added_routes) + 1
         /\ \A i \in DOMAIN added_routes : RouteTable[i] = RouteEntry(added_routes[i])

\* caller routes were registered and the health route follows them
C14_Witness ==
  /\ lifecycle = "Prepared"
  /\ runs = 1
  /\ Len(added_routes) = 2
  /\ RouteTable[1] # HealthEntry
  /\ RouteTable[3] = HealthEntry

\* C15 as stated: once the server is Running, no registry and no Context entry
\* is mutated by any call.
C15_NoMutationAfterRunning ==
  [][lifecycle = "Running" => UNCHANGED <<registries, context>>]_vars

\* C15 amended: the registration API is not guarded by the lifecycle, so calls
\* issued while Running still mutate the registries and the Context, and
\* add_config changes the configuration the engine holds, which is the store
\* itself.  What a registration call never reaches while Running are the
\* routes, listeners and middlewares applied to the engine; and only a
\* registration call or a further run() mutates a registry or the Context.
C15_RunningEngineUntouched ==
  [][lifecycle = "Running" =>
       /\ calls' # calls => _server' = _server
       /\ (calls' = calls /\ runs' = runs) => UNCHANGED <<registries, context, _server>>
       /\ _server_config' = PyDict(config')]_vars

\* a route was added while Running: it is in the registry, not on the engine
C15_Witness ==
  /\ lifecycle = "Running"
  /\ last.op = "add_route"
  /\ Len(_routes) > Len(RouteTable)
  /\ RouteEntry(last.args[1]) \notin Range(RouteTable)

\* the secret the calls so far leave in the store
ExpectedSecret(k) ==
  IF Setters(k) # {} THEN added_configs[LastSetter(k)][k] ELSE GeneralConfig[k]

AuthPublished(ctx) ==
  /\ "auth" \in DOMAIN ctx
  /\ ctx["auth"].type = "AuthManager"
  /\ ctx["auth"].v.User = ExpectedSecret("USER_JWT_SIGNATURE")
  /\ ctx["auth"].v.Service = ExpectedSecret("SERVICE_JWT_SIGNATURE")

\* C16: the engine's run primitive is only ever called from a prepared
\* Application whose Context holds, under "auth", an AuthManager carrying the
\* user and service secrets the store holds at that time, earlier add_config
\* calls included.
C16_AuthManagerBeforeServing ==
  [][(lifecycle # "Running" /\ lifecycle' = "Running") =>
       /\ lifecycle = "Prepared"
       /\ AuthPublished(context)
       /\ AuthPublished(context')
       /\ _server'[Len(_server')].kind = "run"]_vars

\* the server runs with the secret an add_config call supplied
C16_Witness ==
  /\ lifecycle = "Running"
  /\ last.op = "run"
  /\ Setters("USER_JWT_SIGNATURE") # {}
  /\ context["auth"].type = "AuthManager"
  /\ context["auth"].v.User = "a-secret"

HealthCount(routes) == Len(SelectSeq(routes, LAMBDA r : r = HealthRoute))
CallerRoutes(routes) == SelectSeq(routes, LAMBDA r : r # HealthRoute)

\* C20: each run() appends exactly one health Route at the end of _routes and
\* leaves the hook and middleware registries as they were; the registry always
\* holds the caller's routes, in order, and as many health routes as run() was
\* called.
C20_RunAppendsHealthRoute ==
  /\ [][(lifecycle # "Prepared" /\ lifecycle' = "Prepared") =>
          /\ _routes' = Append(_routes, HealthRoute)
          /\ UNCHANGED <<_hooks, _middlewares>>]_vars
  /\ [](/\ HealthCount(_routes) = runs
        /\ CallerRoutes(_routes) = added_routes)

\* the second run(): two health routes end the registry and both are registered
C20_Witness ==
  /\ lifecycle = "Prepared"
  /\ runs = 2
  /\ added_routes # <<>>
  /\ _routes = added_routes \o <<HealthRoute, HealthRoute>>
  /\ Len(SelectSeq(RouteTable, LAMBDA e : e = HealthEntry)) = 2

\* ------------------------------------------- check_auth: the gate's answers
HandlerReturned == func_result # PyNone /\ func_result.exc = NoException

\* C17: the second expired-signature clause is never taken: a response of the
\* gate is either its 401 answer or the response the wrapped handler returned,
\* and the gate builds no 500 response of its own.
C17_GateAnswersOnly401 ==
  (pc = "done" /\ response # PyNone) =>
    /\ response = Unauthorized \/ (HandlerReturned /\ response = func_result.response)
    /\ response.status = 500 => (HandlerReturned /\ func_result.response.status = 500)

\* an expired token was answered, with 401 and not with 500
C17_Witness ==
  /\ pc = "done"
  /\ HasToken
  /\ Decoded.exc = "ExpiredSignatureError"
  /\ func_calls = 0
  /\ response = Unauthorized
  /\ response.status # 500

\* C18: an ExpiredSignatureError raised by the wrapped handler, after a
\* successful decode, is answered 401 by the gate: then the handler was invoked
\* and the request carries the bundle although the answer is 401.
C18_HandlerExpiryBecomes401 ==
  (pc = "done" /\ func_result # PyNone /\ func_result.exc = "ExpiredSignatureError") =>
    /\ response = Unauthorized
    /\ raised = NoException
    /\ func_calls = 1
    /\ DecodesToClaims
    /\ HoldsBundle(TargetMap(request))

\* a 401 for a request whose handler ran and whose body map was changed
C18_Witness ==
  /\ pc = "done"
  /\ response = Unauthorized
  /\ func_calls = 1
  /\ func_result.exc = "ExpiredSignatureError"
  /\ received.method = "POST"
  /\ request.json # received.json

\* the keys a map holds (none when the map is absent)
KeysOf(map) == IF map = PyNone THEN {} ELSE DOMAIN map.v

\* C19: whatever the target map held on arrival, a client-supplied "auth" key
\* included, the wrapped handler finds under "auth" the bundle built from the
\* verified token, and every other key with the value it arrived with; the
\* entry therefore does not depend on a client-supplied "auth" value.
C19_ClientCannotSupplyBundle ==
  (pc # "arrived" /\ DecodesToClaims) =>
    LET before == TargetMap(received)
        after == TargetMap(func_saw.v)
    IN  /\ after.type = "dict"
        /\ DOMAIN after.v = KeysOf(before) \cup {"auth"}
        /\ after.v["auth"] = Bundle
        /\ \A k \in KeysOf(before) \ {"auth"} : after.v[k] = before.v[k]

\* a GET whose path parameters arrived with a forged "auth" entry
C19_Witness ==
  /\ pc = "in_func"
  /\ received.method = "GET"
  /\ received.match_info = PyDict([auth |-> PyStr("forged"), id |-> PyStr("7")])
  /\ func_saw.v.match_info = PyDict([auth |-> Bundle, id |-> PyStr("7")])
====
